---------------------------- MODULE Spec2Model ----------------------------
(***************************************************************************)
(* mender-stress-test-client: one simulated device session.                *)
(*                                                                         *)
(* The repository holds two session implementations:                       *)
(*   - src/client/client.go   Client.Run and its helpers, with the         *)
(*                            optional websocket read loop                 *)
(*                            (src/websocket/connection.go);               *)
(*   - src/main.go            clientScheduler / performFakeUpdate, the     *)
(*                            fleet with the shared fail counter.          *)
(* `program` says which of the two is running; each behaviour of the       *)
(* model is a run of one of them.  The construction of the fleet's         *)
(* Clients (NewClient and the derivation of their addresses) is a third    *)
(* program, "identity", with a specification of its own, IdentitySpec.     *)
(*                                                                         *)
(* A step of Run is one blocking call (an HTTP round trip, a sleep, a      *)
(* select) together with the local code that follows it up to the next     *)
(* blocking call.  The backend is the environment: it picks the outcome    *)
(* of every call.                                                          *)
(***************************************************************************)
EXTENDS Naturals, Sequences, FiniteSets

\* ----------------------------------------------------------------- bounds
\* Authentication attempts the backend lets fail in a row.
MaxAuthFail == 2
\* 401 answers the backend gives to authenticated calls in one run.
MaxReject == 1
\* Deployments the backend hands to one Client.
MaxDeploy == 1
\* Websocket connections NewConnection establishes in one run.
MaxConn == 2
\* Frames the peer sends over the websocket in one run.
MaxFrames == 1
\* Pings the ticker of a ping-pong handler starts in one run (one an hour).
MaxPings == 1
\* What the environment does in one run, all told: 401 answers, deployments,
\* inbound frames and pings.
MaxEvents == 2

\* Clients NewClient makes in one run of the construction of the fleet.
MaxFleet == 3

\* Devices of the fleet main.go runs (menderClientCount, --count).
menderClientCount == 3
\* What the backend does to the fleet of main.go in one run, all told:
\* deployments it hands out and the first 401 it answers.
MaxUpdates == 4
\* Devices of the fleet the backend keeps in a deployment at the same time.
MaxInFlight == 2

\* ------------------------------------------------------- program constants
\* main.go --failcount: deployments that fail in one pass over the fleet.
updateFailCount == 1
\* Config.ArtifactName (README: --artifact-name, default "original").
ConfigArtifactName == "original"
\* Target artifacts a deployment may carry; NoArtifact is response.Artifact == nil.
NoArtifact == "nil"
Artifacts == {"v2", NoArtifact}
\* c.WebsocketConnection == nil
NilConn == 0
\* c.JWTToken == ""
NoToken == 0

\* statuses of Client.Deployment, in the order of the slice
statuses == <<"downloading", "installing", "rebooting", "success">>

\* Outcomes of http.DefaultClient.Do as the code distinguishes them.
\* "err": Do returned an error; "500": any status that is neither 200 nor 401.
AuthOutcomes == {"err", "200", "readErr", "401", "500"}
CallOutcomes == {"err", "200", "401", "500"}
UpdateOutcomes == {"err", "401", "204", "500", "badBody"}
\* Frames the peer may send: spawn-shell requests and anything else.
FrameKinds == {"spawnShell", "other"}

VARIABLES
    program,              \* "client" (client.go), "main" (main.go), or "identity":
                          \* the construction of the fleet's Clients (NewClient)
    MACAddressPrefix,     \* Config.MACAddressPrefix, a string of characters
    clients,              \* the Clients NewClient has made: {[Index, MACAddress]}
    Websocket,            \* Config.Websocket
    pc,                   \* where Client.Run is
    caller,               \* which call of UpdateCheck is running: "firstUpd" | "tickUpd"
    JWTToken,             \* c.JWTToken
    ArtifactName,         \* c.ArtifactName
    WebsocketConnection,  \* c.WebsocketConnection: NilConn or an index of conns
    conns,                \* every websocket.Connection ever made
    loops,                \* every StartWebsocket goroutine ever started
    dep,                  \* the deployment in flight: [artifact, idx]
    depReports,           \* history: statuses reported for the deployment in flight
    depDelays,            \* history: DeploymentTime sleeps since the last report
    lastReq,              \* history: the last HTTP request Run sent, and its outcome
    rejected,             \* history: a 401 was received since the last successful Authenticate
    replies,              \* history: frames Run wrote in answer to inbound frames
    authFails, rejects, deploys, frames, pings,  \* what the environment has used of its budgets
    \* ---- main.go
    devs,                 \* per device: where clientScheduler is, its token, its deployment
    updatesPerformed,     \* main.go:56
    updatesLeftToFail,    \* main.go:57
    lock,                 \* main.go:61: the device that holds the mutex, or NoHolder
    lrejected             \* history: the first device whose token got a 401 (or 0), and
                          \* whether it sent an authenticated request after that

clientVars == <<Websocket, pc, caller, JWTToken, ArtifactName, WebsocketConnection,
                conns, loops, dep, depReports, depDelays, lastReq, rejected,
                replies, authFails, rejects, deploys, frames, pings>>

mainVars == <<devs, updatesPerformed, updatesLeftToFail, lock, lrejected>>

identityVars == <<MACAddressPrefix, clients>>

vars == <<program, identityVars, clientVars, mainVars>>

NoDep == [artifact |-> NoArtifact, idx |-> 0]
NoReq == [kind |-> "none", token |-> NoToken, arg |-> "", ok |-> FALSE,
          attempt |-> 0, denied |-> 0]

\* What the environment has used of MaxEvents.
Events == rejects + deploys + frames + pings
\* The backend rejects a credential (401) a bounded number of times.
CanAnswer(resp) == resp = "401" => (rejects < MaxReject /\ Events < MaxEvents)
Charge(resp) == IF resp = "401" THEN rejects + 1 ELSE rejects

\* The request Run sends, as history: the bearer token of its Authorization
\* header, the artifact name or status of its body, and whether the backend
\* accepted it (a 2xx answer).  For an authentication request, attempt and
\* denied count the requests the running authentication has sent and the 401
\* answers it got, this one included.
Request(kind, arg, resp) ==
    [kind |-> kind, token |-> JWTToken, arg |-> arg, ok |-> resp \in {"200", "204"},
     attempt |-> 0, denied |-> 0]

\* The authentication requests sent, and the 401 answers received, since Run
\* last went to its auth label (184): those of the last request when that was a
\* failed authentication request.
AuthAttempts == IF lastReq.kind = "auth" /\ ~lastReq.ok THEN lastReq.attempt ELSE 0
AuthDenials == IF lastReq.kind = "auth" /\ ~lastReq.ok THEN lastReq.denied ELSE 0

Running == program = "client" /\ pc # "panicked"

\* ------------------------------------------------------ websocket.Connection
\* Connection.Close (156-162): signal done without blocking, then CloseNow.  The
\* send on done succeeds only when the ping-pong handler waits in its select;
\* otherwise the default case is taken and the signal is dropped.
Close(cs, h) == [cs EXCEPT ![h].open = FALSE,
                           ![h].pinger = IF @ = "select" THEN "stopped" ELSE @]

\* NewConnection: dial with the bearer token, start the ping-pong handler.
\* reconnect is history: the read loop that dials had a read error while the
\* session held this same token.
NewConnection(token, reconnect) ==
    [open |-> TRUE, token |-> token, reconnect |-> reconnect, pinger |-> "select"]

\* pingPongHandler of connection c, the ticker case of its select (116-118):
\* the handler leaves the select and calls Ping.
PingTick(c) ==
    /\ Running /\ c \in 1..Len(conns)
    /\ conns[c].pinger = "select"
    /\ pings < MaxPings /\ Events < MaxEvents
    /\ pings' = pings + 1
    /\ conns' = [conns EXCEPT ![c].pinger = "ping"]
    /\ UNCHANGED <<program, identityVars, mainVars, Websocket, pc, caller, JWTToken, ArtifactName,
                   WebsocketConnection, loops, dep, depReports, depDelays, lastReq,
                   rejected, replies, authFails, rejects, deploys, frames>>

\* (mutant of AfterPingFailure: the handler ends without closing the connection)
AfterPingFailure_NoClose(cs, c) == [cs EXCEPT ![c].pinger = "failed"]

\* What the handler does when Ping returned an error (120-123): Close, whose
\* send on done finds no receiver, then break out of the loop.  The handler
\* is over: "failed" here, "stopped" when it received done (114-115).
AfterPingFailure(cs, c) == [Close(cs, c) EXCEPT ![c].pinger = "failed"]

\* pingPongHandler of connection c, Ping returns (118-124): the pong came in
\* time, or it did not (timeout after 30 s, or the connection is closed).
PingResult(c, acked) ==
    /\ Running /\ c \in 1..Len(conns)
    /\ conns[c].pinger = "ping"
    /\ acked => conns[c].open
    /\ conns' = IF acked THEN [conns EXCEPT ![c].pinger = "select"]
                ELSE AfterPingFailure(conns, c)
    /\ UNCHANGED <<program, identityVars, mainVars, Websocket, pc, caller, JWTToken, ArtifactName,
                   WebsocketConnection, loops, dep, depReports, depDelays, lastReq,
                   rejected, replies, authFails, rejects, deploys, frames, pings>>

\* --------------------------------------------------------------- Client.Run
\* What Run does with the error a call returned (lines 197-226): goto auth on
\* errUnauthorized, closing the websocket first on the ticker paths only.
\* ctx is the call site: "firstInv", "firstUpd", "tickInv", "tickUpd".
\* (mutant of Next_pc: an error on a ticker path sends Run back to its auth
\* label)
Next_pc_Reauth(ctx) ==
    CASE ctx = "firstInv" -> "firstUpd"
      [] ctx = "tickInv" -> "auth"
      [] OTHER -> "loop"

Next_pc(ctx) == IF ctx = "firstInv" THEN "firstUpd" ELSE "loop"

RunHandle(ctx, err) ==
    IF err = "unauthorized"
    THEN IF ctx \in {"tickInv", "tickUpd"} /\ Websocket
         THEN \* c.CloseWebsocket(): c.WebsocketConnection.Close()
              IF WebsocketConnection = NilConn
              THEN pc' = "panicked" /\ conns' = conns      \* nil pointer dereference
              ELSE pc' = "auth" /\ conns' = Close(conns, WebsocketConnection)
         ELSE pc' = "auth" /\ conns' = conns
    ELSE pc' = Next_pc(ctx) /\ conns' = conns

\* The error a call returns for an outcome of Do (SendInventory 317-333,
\* Deployment 437-453): an error from Do is returned, 401 is errUnauthorized,
\* every other status is nil.
ErrOf(resp) ==
    CASE resp = "err" -> "error"
      [] resp = "401" -> "unauthorized"
      [] OTHER -> "nil"

\* (mutant of AfterAuthFailure: Run returns when Authenticate returns an error)
AfterAuthFailure_GivesUp(resp) ==
    IF resp \in {"err", "readErr"} THEN "exited" ELSE "authSleep"

\* (mutant of AfterAuthFailure: a rejected request is repeated at once)
AfterAuthFailure_NoSleep(resp) ==
    IF resp \in {"err", "readErr"} THEN "runSleep" ELSE "auth"

\* Where a failed pass of Authenticate leaves Run: an error is returned and Run
\* sleeps AuthInterval before calling Authenticate again (156-158, 167-169,
\* 186-190); any other status sleeps AuthInterval inside the loop (172-176).
AfterAuthFailure(resp) ==
    IF resp \in {"err", "readErr"} THEN "runSleep" ELSE "authSleep"

\* Authenticate, one pass of its loop (lines 144-177), and what Run does with the
\* result (lines 184-195).
Authenticate(resp) ==
    /\ Running /\ pc = "auth"
    /\ resp # "200" => authFails < MaxAuthFail
    /\ authFails' = IF resp # "200" THEN authFails + 1 ELSE 0
    /\ lastReq' = [Request("auth", "", resp) EXCEPT
                      !.token = NoToken,
                      !.attempt = AuthAttempts + 1,
                      !.denied = AuthDenials + (IF resp = "401" THEN 1 ELSE 0)]
    /\ CASE resp = "200" ->
              \* c.JWTToken = string(body); Run makes the channel and starts the
              \* websocket goroutine
              /\ JWTToken' = JWTToken + 1
              /\ rejected' = FALSE
              /\ pc' = "firstInv"
              /\ loops' = IF Websocket
                          THEN Append(loops, [pc |-> "open", rconn |-> NilConn,
                                              msg |-> "", buf |-> <<>>, errTok |-> NoToken])
                          ELSE loops
         [] OTHER ->
              /\ pc' = AfterAuthFailure(resp)
              /\ UNCHANGED <<JWTToken, rejected, loops>>
    /\ UNCHANGED <<program, identityVars, mainVars, Websocket, caller, ArtifactName, WebsocketConnection, conns,
                   dep, depReports, depDelays, replies, rejects, deploys, frames, pings>>

\* time.Sleep(c.Config.AuthInterval) in Authenticate (176) and in Run (188).
AuthSleep ==
    /\ Running /\ pc \in {"authSleep", "runSleep"}
    /\ pc' = "auth"
    /\ UNCHANGED <<program, identityVars, mainVars, Websocket, caller, JWTToken, ArtifactName, WebsocketConnection,
                   conns, loops, dep, depReports, depDelays, lastReq, rejected,
                   replies, authFails, rejects, deploys, frames, pings>>

\* SendInventory (262-334) at one of its three call sites in Run/UpdateCheck.
SendInventory(ctx, resp) ==
    /\ CanAnswer(resp)
    /\ rejects' = Charge(resp)
    /\ lastReq' = Request("inventory", ArtifactName, resp)
    /\ rejected' = (rejected \/ resp = "401")
    /\ RunHandle(ctx, ErrOf(resp))

\* Run line 197: the inventory report right after authentication.
FirstInventory(resp) ==
    /\ Running /\ pc = "firstInv"
    /\ SendInventory("firstInv", resp)
    /\ UNCHANGED <<program, identityVars, mainVars, Websocket, caller, JWTToken, ArtifactName, WebsocketConnection,
                   loops, dep, depReports, depDelays, replies, authFails, deploys, frames, pings>>

\* (mutant of InSelect: the cases of the select also run while Deployment sleeps)
InSelect_WhileDeploying == pc \in {"loop", "depSleep"}

\* Run is blocked in the select of its for loop (209-210), the one place where
\* a ticker or an inbound frame is taken up.
InSelect == pc = "loop"

\* Run lines 211-218: the inventory ticker fired.
InventoryTick(resp) ==
    /\ Running /\ InSelect
    /\ SendInventory("tickInv", resp)
    /\ UNCHANGED <<program, identityVars, mainVars, Websocket, caller, JWTToken, ArtifactName, WebsocketConnection,
                   loops, dep, depReports, depDelays, replies, authFails, deploys, frames, pings>>

\* (mutant of DeploymentCall: the deployment runs beside Run, which goes back
\* to its select)
DeploymentCall_Async == "loop"

\* err = c.Deployment(response.ID) (389): a plain call, Run goes on inside
\* Deployment with the report of the first phase.
DeploymentCall == "depReport"

\* UpdateCheck, the request (336-387), at one of its two call sites in Run.
\* A deployment is a 200 whose body decodes to {id, artifact}.
UpdateCheck(ctx, resp) ==
    /\ resp \in UpdateOutcomes \/ (resp \in Artifacts /\ deploys < MaxDeploy /\ Events < MaxEvents)
    /\ resp \in UpdateOutcomes => CanAnswer(resp)
    /\ lastReq' = Request("update", ConfigArtifactName,
                          IF resp \in UpdateOutcomes THEN resp ELSE "200")
    /\ rejected' = (rejected \/ resp = "401")
    /\ IF resp \in UpdateOutcomes
       THEN /\ rejects' = Charge(resp)
            /\ RunHandle(ctx, IF resp = "badBody" THEN "error" ELSE ErrOf(resp))
            /\ UNCHANGED <<caller, dep, depReports, depDelays, deploys>>
       ELSE \* c.Deployment(response.ID) starts
            /\ dep' = [artifact |-> resp, idx |-> 1]
            /\ depReports' = <<>>
            /\ depDelays' = 0
            /\ deploys' = deploys + 1
            /\ caller' = ctx
            /\ pc' = DeploymentCall
            /\ UNCHANGED <<rejects, conns>>

\* Run line 201: the update check right after the first inventory report.
FirstUpdateCheck(resp) ==
    /\ Running /\ pc = "firstUpd"
    /\ UpdateCheck("firstUpd", resp)
    /\ UNCHANGED <<program, identityVars, mainVars, Websocket, JWTToken, ArtifactName, WebsocketConnection,
                   loops, replies, authFails, frames, pings>>

\* Run lines 219-226: the update ticker fired.
UpdateTick(resp) ==
    /\ Running /\ InSelect
    /\ UpdateCheck("tickUpd", resp)
    /\ UNCHANGED <<program, identityVars, mainVars, Websocket, JWTToken, ArtifactName, WebsocketConnection,
                   loops, replies, authFails, frames, pings>>

\* (mutant of AfterReport: UpdateCheck ignores the error Deployment returns and
\* goes on to the inventory report)
AfterReport_IgnoresError(resp) ==
    IF ErrOf(resp) = "nil"
    THEN /\ pc' = "depSleep"
         /\ UNCHANGED <<dep, conns>>
    ELSE /\ pc' = "postInv"
         /\ UNCHANGED <<dep, conns>>

\* What Deployment does after the status report of one phase (437-455): return
\* the error of Do, return errUnauthorized on 401, otherwise go to sleep.
AfterReport(resp) ==
    IF ErrOf(resp) = "nil"
    THEN /\ pc' = "depSleep"
         /\ UNCHANGED <<dep, conns>>
    ELSE \* Deployment returns err, UpdateCheck returns it (389-392)
         /\ dep' = NoDep
         /\ RunHandle(caller, ErrOf(resp))

\* Deployment, the status report of the phase dep.idx (416-453).
DeploymentReport(resp) ==
    /\ Running /\ pc = "depReport"
    /\ CanAnswer(resp)
    /\ rejects' = Charge(resp)
    /\ lastReq' = Request("status", statuses[dep.idx], resp)
    /\ rejected' = (rejected \/ resp = "401")
    /\ depReports' = Append(depReports, statuses[dep.idx])
    /\ depDelays' = 0
    /\ AfterReport(resp)
    /\ UNCHANGED <<program, identityVars, mainVars, Websocket, caller, JWTToken, ArtifactName,
                   WebsocketConnection, loops, replies, authFails, deploys, frames, pings>>

\* (mutant of NextPhase: the installing phase is skipped)
NextPhase_SkipsInstalling(idx) == IF idx = 1 THEN 3 ELSE idx + 1

\* The phase Deployment's range loop reports next (416).
NextPhase(idx) == idx + 1

\* (mutant of NewArtifactName: the target artifact is not remembered)
NewArtifactName_Forgets == ArtifactName

\* The artifact name UpdateCheck remembers once Deployment returned nil (394-397).
NewArtifactName == IF dep.artifact # NoArtifact THEN dep.artifact ELSE ArtifactName

\* Deployment, time.Sleep(c.Config.DeploymentTime) after a report (455); after
\* the last phase Deployment returns nil and UpdateCheck sets the artifact name.
DeploymentSleep ==
    /\ Running /\ pc = "depSleep"
    /\ depDelays' = depDelays + 1
    /\ IF dep.idx < Len(statuses)
       THEN /\ dep' = [dep EXCEPT !.idx = NextPhase(dep.idx)]
            /\ pc' = "depReport"
            /\ UNCHANGED ArtifactName
       ELSE /\ ArtifactName' = NewArtifactName
            /\ pc' = "postInv"
            /\ UNCHANGED dep
    /\ UNCHANGED <<program, identityVars, mainVars, Websocket, caller, JWTToken, WebsocketConnection, conns,
                   loops, depReports, lastReq, rejected, replies, authFails, rejects, deploys, frames, pings>>

\* UpdateCheck line 398: the inventory report right after the deployment.
PostInventory(resp) ==
    /\ Running /\ pc = "postInv"
    /\ SendInventory(caller, resp)
    /\ dep' = NoDep
    /\ depReports' = <<>>
    /\ depDelays' = 0
    /\ UNCHANGED <<program, identityVars, mainVars, Websocket, caller, JWTToken, ArtifactName, WebsocketConnection,
                   loops, replies, authFails, deploys, frames, pings>>

\* -------------------------------------------------- Client.StartWebsocket
\* The goroutine l of StartWebsocket (460-479).  Its channel is the one Run
\* made right before starting it, kept here as loops[l].buf (capacity 1).
Loops == 1..Len(loops)
At(l, where) == Running /\ l \in Loops /\ loops[l].pc = where

LoopUnchanged == UNCHANGED <<program, identityVars, mainVars, Websocket, pc, caller, JWTToken, ArtifactName,
                             dep, depReports, depDelays, lastReq, rejected, replies,
                             authFails, rejects, deploys>>

\* OpenWebsocket (481-490): NewConnection with the token the session holds now.
OpenWebsocket(l, ok) ==
    /\ At(l, "open")
    /\ IF ok
       THEN /\ Len(conns) < MaxConn
            /\ conns' = Append(conns, NewConnection(JWTToken, loops[l].errTok = JWTToken))
            /\ WebsocketConnection' = Len(conns) + 1
            /\ loops' = [loops EXCEPT ![l].pc = "read"]
       ELSE /\ loops' = [loops EXCEPT ![l].pc = "openSleep"]
            /\ UNCHANGED <<conns, WebsocketConnection>>
    /\ UNCHANGED <<frames, pings>>
    /\ LoopUnchanged

\* Where the read loop goes once its sleep of one reconnection interval is over
\* (466-467, 473-474): back to OpenWebsocket.
AfterSleep == "open"

\* time.Sleep(interval) after a failed open or after a read error.
ReconnectSleep(l) ==
    /\ At(l, "openSleep") \/ At(l, "errSleep")
    /\ loops' = [loops EXCEPT ![l].pc = AfterSleep]
    /\ UNCHANGED <<conns, WebsocketConnection, frames, pings>>
    /\ LoopUnchanged

\* c.WebsocketConnection.ReadMessage() is called (470): the handle is read now,
\* the call then blocks on that connection.
ReadCall(l) ==
    /\ At(l, "read")
    /\ loops' = [loops EXCEPT ![l].pc = "reading", ![l].rconn = WebsocketConnection]
    /\ UNCHANGED <<conns, WebsocketConnection, frames, pings>>
    /\ LoopUnchanged

\* ReadMessage returns a frame (476 follows).
ReadFrame(l, kind) ==
    /\ At(l, "reading")
    /\ conns[loops[l].rconn].open
    /\ frames < MaxFrames /\ Events < MaxEvents
    /\ frames' = frames + 1
    /\ loops' = [loops EXCEPT ![l].pc = "send", ![l].msg = kind]
    /\ UNCHANGED <<conns, WebsocketConnection, pings>>
    /\ LoopUnchanged

\* (mutant of AfterReadError: the read loop reconnects at once)
AfterReadError_NoSleep == "open"

\* Where the read loop goes after a read error (471-475): CloseWebsocket, then
\* sleep one reconnection interval.
AfterReadError == "errSleep"

\* ReadMessage returns an error (471-475): the connection was closed, the peer
\* or the transport failed (closed: the library closes the connection), or the
\* frame did not decode (149-152, the connection stays as it is).  The loop
\* then closes whatever c.WebsocketConnection is now.
ReadError(l, cause) ==
    /\ At(l, "reading")
    /\ cause = "closed" => ~conns[loops[l].rconn].open
    /\ cause # "closed" => conns[loops[l].rconn].open
    /\ LET failed == IF cause = "transport" THEN Close(conns, loops[l].rconn) ELSE conns
       IN  conns' = Close(failed, WebsocketConnection)
    /\ loops' = [loops EXCEPT ![l].pc = AfterReadError, ![l].errTok = JWTToken,
                              ![l].rconn = NilConn]
    /\ UNCHANGED <<WebsocketConnection, frames, pings>>
    /\ LoopUnchanged

\* websocketMessages <- msg (476): blocks while the channel's buffer is full.
ChannelSend(l) ==
    /\ At(l, "send")
    /\ Len(loops[l].buf) < 1
    /\ loops' = [loops EXCEPT ![l].pc = "read", ![l].buf = Append(@, loops[l].msg),
                              ![l].msg = ""]
    /\ UNCHANGED <<conns, WebsocketConnection, frames, pings>>
    /\ LoopUnchanged

\* The frame Run writes in answer to an inbound frame (229-257).
Reply(kind) == IF kind = "spawnShell" THEN "shellError" ELSE "controlError"

\* c.WebsocketConnection.WriteMessage (231, 249; connection.go 132-140): the
\* frame goes out when the connection behind the handle is open; on a closed
\* connection Write returns an error, which Run discards.
WriteMessage(frame) ==
    IF conns[WebsocketConnection].open THEN Append(replies, frame) ELSE replies

\* Run lines 227-257: a frame arrives on the channel Run made after the last
\* authentication; Run answers it over c.WebsocketConnection.
WebsocketMsg ==
    /\ Running /\ InSelect
    /\ Websocket /\ loops # <<>>
    /\ LET cur == Len(loops) IN
       /\ loops[cur].buf # <<>>
       /\ replies' = WriteMessage(Reply(Head(loops[cur].buf)))
       /\ loops' = [loops EXCEPT ![cur].buf = Tail(@)]
    /\ UNCHANGED <<program, identityVars, mainVars, Websocket, pc, caller, JWTToken, ArtifactName,
                   WebsocketConnection, conns, dep, depReports, depDelays, lastReq,
                   rejected, authFails, rejects, deploys, frames, pings>>

\* ------------------------------------------------------------------ main.go
Devices == 1..menderClientCount
NoCycle == <<>>
\* lock is free
NoHolder == 0
\* first is history: the terminal phase of the first reporting cycle the
\* device was given, "none" before that.
DevInit == [pc |-> "auth", token |-> NoToken, cycle |-> NoCycle, idx |-> 0,
            reports |-> <<>>, delays |-> 0, first |-> "none"]

In(d, where) == program = "main" /\ devs[d].pc = where

MainUnchanged == UNCHANGED <<program, identityVars, clientVars>>

\* Devices the backend has handed a deployment that is not over yet.
InFlight == {d \in Devices : devs[d].pc \in {"fake", "locked"} \/ devs[d].cycle # NoCycle}

\* What the backend has used of MaxUpdates.
MainEvents ==
    updatesPerformed + Cardinality({d \in Devices : devs[d].pc \in {"fake", "locked"}})
       + (IF lrejected.dev # 0 THEN 1 ELSE 0)

\* The backend answers an authenticated call of the fleet with resp.
MainCanAnswer(resp) ==
    /\ resp = "401" => (lrejected.dev # 0 \/ MainEvents < MaxUpdates)
    /\ resp = "update" => (MainEvents < MaxUpdates /\ Cardinality(InFlight) < MaxInFlight)

\* History of the authenticated request device d sends with the token it got
\* from clientAuthenticate, and of the answer.
Sent(d, resp) ==
    CASE lrejected.dev = d -> [lrejected EXCEPT !.resent = TRUE]
      [] lrejected.dev = 0 /\ resp = "401" -> [dev |-> d, resent |-> FALSE]
      [] OTHER -> lrejected

\* clientAuthenticate, one pass of its loop (248-256): return the token when the
\* request succeeded with a non-empty body, otherwise sleep and try again.
clientAuthenticate(d, resp) ==
    /\ In(d, "auth")
    /\ devs' = [devs EXCEPT ![d] =
                 IF resp = "token"
                 THEN [@ EXCEPT !.pc = "loop", !.token = 1]
                 ELSE [@ EXCEPT !.pc = "authSleep"]]
    /\ UNCHANGED <<updatesPerformed, updatesLeftToFail, lock, lrejected>>
    /\ MainUnchanged

\* time.Sleep(pollFrequency) in clientAuthenticate (255).
clientAuthenticateSleep(d) ==
    /\ In(d, "authSleep")
    /\ devs' = [devs EXCEPT ![d].pc = "auth"]
    /\ UNCHANGED <<updatesPerformed, updatesLeftToFail, lock, lrejected>>
    /\ MainUnchanged

\* clientScheduler 214-216: the inventory ticker fired; sendInventoryUpdate
\* (355-365) logs a failure and returns.
sendInventoryUpdate(d, resp) ==
    /\ In(d, "loop")
    /\ MainCanAnswer(resp)
    /\ lrejected' = Sent(d, resp)
    /\ UNCHANGED <<devs, updatesPerformed, updatesLeftToFail, lock>>
    /\ MainUnchanged

\* The condition of checkForNewUpdate (273): an update was performed for all
\* the devices.
AllDevicesUpdated == updatesPerformed > 0 /\ updatesPerformed % menderClientCount = 0

\* clientScheduler 218-219 and checkForNewUpdate 272-273: the update ticker
\* fired; the condition for resetting the fail counter is read, without the
\* lock.
checkForNewUpdate(d) ==
    /\ In(d, "loop")
    /\ devs' = [devs EXCEPT ![d].pc = IF AllDevicesUpdated THEN "reset" ELSE "check"]
    /\ UNCHANGED <<updatesPerformed, updatesLeftToFail, lock, lrejected>>
    /\ MainUnchanged

\* checkForNewUpdate 274: the fail counter is written, without the lock.
ResetFailCount(d) ==
    /\ In(d, "reset")
    /\ updatesLeftToFail' = updateFailCount
    /\ devs' = [devs EXCEPT ![d].pc = "check"]
    /\ UNCHANGED <<updatesPerformed, lock, lrejected>>
    /\ MainUnchanged

\* checkForNewUpdate 277-295: GetScheduledUpdate answers; with an update,
\* performFakeUpdate is called.
GetScheduledUpdate(d, resp) ==
    /\ In(d, "check")
    /\ MainCanAnswer(resp)
    /\ lrejected' = Sent(d, resp)
    /\ devs' = [devs EXCEPT ![d].pc = IF resp = "update" THEN "fake" ELSE "loop"]
    /\ UNCHANGED <<updatesPerformed, updatesLeftToFail, lock>>
    /\ MainUnchanged

\* The reporting cycle performFakeUpdate picks under the lock (301-309).
reportingCycle ==
    <<"downloading", "installing", "rebooting",
      IF updatesLeftToFail > 0 THEN "failure" ELSE "success">>

\* performFakeUpdate 303: lock.Lock() returns once the mutex is free.
LockCounters(d) ==
    /\ In(d, "fake")
    /\ lock = NoHolder
    /\ lock' = d
    /\ devs' = [devs EXCEPT ![d].pc = "locked"]
    /\ UNCHANGED <<updatesPerformed, updatesLeftToFail, lrejected>>
    /\ MainUnchanged

\* performFakeUpdate 304-311: the critical section, up to lock.Unlock().
performFakeUpdate(d) ==
    /\ In(d, "locked")
    /\ devs' = [devs EXCEPT ![d] =
                 [@ EXCEPT !.pc = "sleep", !.cycle = reportingCycle,
                           !.idx = 1, !.reports = <<>>, !.delays = 0,
                           !.first = IF @ = "none" THEN reportingCycle[4] ELSE @]]
    /\ updatesLeftToFail' = IF updatesLeftToFail > 0 THEN updatesLeftToFail - 1
                            ELSE updatesLeftToFail
    /\ updatesPerformed' = updatesPerformed + 1
    /\ lock' = NoHolder
    /\ UNCHANGED lrejected
    /\ MainUnchanged

\* performFakeUpdate 314: the sleep before each event of the cycle; what
\* follows depends on the event (315-333).
FakeUpdateSleep(d) ==
    /\ In(d, "sleep")
    /\ LET event == devs[d].cycle[devs[d].idx] IN
       devs' = [devs EXCEPT ![d].delays = @ + 1,
                            ![d].pc = CASE event = "downloading" -> "download"
                                        [] event = "failure" -> "upload"
                                        [] OTHER -> "report"]
    /\ UNCHANGED <<updatesPerformed, updatesLeftToFail, lock, lrejected>>
    /\ MainUnchanged

\* performFakeUpdate 315-319: downloadToDevNull; a failure is logged.
downloadToDevNull(d, ok) ==
    /\ In(d, "download")
    /\ devs' = [devs EXCEPT ![d].pc = "report"]
    /\ UNCHANGED <<updatesPerformed, updatesLeftToFail, lock, lrejected>>
    /\ MainUnchanged

\* performFakeUpdate 321-333: the failure log is uploaded before the failure
\* is reported; when the upload fails performFakeUpdate returns.
LogUpload(d, ok) ==
    /\ In(d, "upload")
    /\ devs' = [devs EXCEPT ![d] =
                 IF ok THEN [@ EXCEPT !.pc = "report"]
                 ELSE [@ EXCEPT !.pc = "loop", !.cycle = NoCycle, !.idx = 0,
                                !.reports = <<>>, !.delays = 0]]
    /\ lrejected' = Sent(d, "")
    /\ UNCHANGED <<updatesPerformed, updatesLeftToFail, lock>>
    /\ MainUnchanged

\* performFakeUpdate 346-351: the status report of the event; an error is
\* logged and the cycle goes on.
StatusReport(d, resp) ==
    /\ In(d, "report")
    /\ MainCanAnswer(resp)
    /\ lrejected' = Sent(d, resp)
    /\ LET dv == devs[d]
           sent == [dv EXCEPT !.reports = Append(@, dv.cycle[dv.idx]), !.delays = 0]
       IN devs' = [devs EXCEPT ![d] =
                   IF dv.idx < Len(dv.cycle)
                   THEN [sent EXCEPT !.pc = "sleep", !.idx = dv.idx + 1]
                   ELSE [sent EXCEPT !.pc = "done"]]
    /\ UNCHANGED <<updatesPerformed, updatesLeftToFail, lock>>
    /\ MainUnchanged

\* performFakeUpdate returns after the last event of the cycle (352-353).
FakeUpdateReturn(d) ==
    /\ In(d, "done")
    /\ devs' = [devs EXCEPT ![d] = [@ EXCEPT !.pc = "loop", !.cycle = NoCycle, !.idx = 0,
                                             !.reports = <<>>, !.delays = 0]]
    /\ UNCHANGED <<updatesPerformed, updatesLeftToFail, lock, lrejected>>
    /\ MainUnchanged

MainNext ==
    \/ \E d \in Devices, resp \in {"token", "err", "empty"} : clientAuthenticate(d, resp)
    \/ \E d \in Devices : clientAuthenticateSleep(d)
    \/ \E d \in Devices, resp \in {"ok", "err", "401"} : sendInventoryUpdate(d, resp)
    \/ \E d \in Devices : checkForNewUpdate(d)
    \/ \E d \in Devices : ResetFailCount(d)
    \/ \E d \in Devices : LockCounters(d)
    \/ \E d \in Devices, resp \in {"update", "none", "err", "401"} : GetScheduledUpdate(d, resp)
    \/ \E d \in Devices : performFakeUpdate(d)
    \/ \E d \in Devices : FakeUpdateSleep(d)
    \/ \E d \in Devices, ok \in BOOLEAN : downloadToDevNull(d, ok)
    \/ \E d \in Devices, ok \in BOOLEAN : LogUpload(d, ok)
    \/ \E d \in Devices, resp \in {"ok", "err", "401"} : StatusReport(d, resp)
    \/ \E d \in Devices : FakeUpdateReturn(d)

\* ----------------------------------------------------------------- identity
\* The characters strconv.ParseUint takes as digits in base 16, by value.
HexDigits == <<"0", "1", "2", "3", "4", "5", "6", "7", "8", "9",
               "a", "b", "c", "d", "e", "f">>
UpperHexDigits == <<"0", "1", "2", "3", "4", "5", "6", "7", "8", "9",
                    "A", "B", "C", "D", "E", "F">>
IsHexDigit(ch) == \E v \in 1..16 : HexDigits[v] = ch \/ UpperHexDigits[v] = ch
HexValue(ch) == (CHOOSE v \in 1..16 : HexDigits[v] = ch \/ UpperHexDigits[v] = ch) - 1

\* The number a string of hex digits denotes, most significant digit first.
RECURSIVE HexNumber(_)
HexNumber(s) ==
    IF s = <<>> THEN 0
    ELSE HexNumber(SubSeq(s, 1, Len(s) - 1)) * 16 + HexValue(s[Len(s)])

\* strconv.ParseUint(prefix, 16, 8) (81-84): a syntax error for the empty string
\* and for a character that is no hex digit, a range error for a value that
\* does not fit 8 bits.
ParseUint(s) ==
    IF s = <<>> \/ (\E k \in 1..Len(s) : ~IsHexDigit(s[k])) THEN [err |-> TRUE, val |-> 0]
    ELSE IF HexNumber(s) > 255 THEN [err |-> TRUE, val |-> 255]
    ELSE [err |-> FALSE, val |-> HexNumber(s)]

\* An index is an int64, kept as its 8 bytes, most significant first; the
\* indices of a fleet are not negative.
IndexBytes == {0, 1, 255}
Indices ==
    {ix \in [1..8 -> IndexBytes] :
        /\ ix[1] < 128
        /\ Cardinality({k \in 1..8 : ix[k] # 0}) <= 1}
ZeroIndex == [k \in 1..8 |-> 0]

\* index >> n for a non-negative int64 and n a multiple of 8: the low n/8
\* bytes fall off, zero bytes come in at the top.
ShiftRight(ix, n) == [k \in 1..8 |-> IF k > n \div 8 THEN ix[k - n \div 8] ELSE 0]

\* (mutant of IndexByte: the index is taken as 32 bits wide)
IndexByte_Low32(ix, n) == IF n >= 32 THEN 0 ELSE ShiftRight(ix, n)[8]

\* byte(int64(index>>n) & 255) (87-91): the lowest byte of the shifted index.
IndexByte(ix, n) == ShiftRight(ix, n)[8] % 256

\* fmt.Sprintf("%02x", b): two lower-case hex digits.
Hex02(b) == <<HexDigits[(b \div 16) + 1], HexDigits[(b % 16) + 1]>>

\* getMACAddressFromPrefixAndIndex (80-95).
getMACAddressFromPrefixAndIndex(prefix, index) ==
    LET prefixNum == ParseUint(prefix)
        buf == <<prefixNum.val % 256, IndexByte(index, 32), IndexByte(index, 24),
                 IndexByte(index, 16), IndexByte(index, 8), IndexByte(index, 0)>>
    IN  IF prefixNum.err THEN [err |-> TRUE, val |-> <<>>]
        ELSE [err |-> FALSE,
              val |-> Hex02(buf[1]) \o <<":">> \o Hex02(buf[2]) \o <<":">> \o
                      Hex02(buf[3]) \o <<":">> \o Hex02(buf[4]) \o <<":">> \o
                      Hex02(buf[5]) \o <<":">> \o Hex02(buf[6])]

\* What NewClient (97-110) returns for an index, added to the Clients made so
\* far: nothing when the prefix does not parse.
Constructed(cs, prefix, index) ==
    LET macAddress == getMACAddressFromPrefixAndIndex(prefix, index)
    IN  IF macAddress.err THEN cs
        ELSE cs \cup {[Index |-> index, MACAddress |-> macAddress.val]}

\* NewClient(config, index) for one more device of the fleet.
NewClient(index) ==
    /\ program = "identity"
    /\ Cardinality(clients) < MaxFleet
    /\ clients' = Constructed(clients, MACAddressPrefix, index)
    /\ UNCHANGED <<program, MACAddressPrefix, clientVars, mainVars>>

\* Values of --mac-address-prefix: one-byte prefixes in either case and with a
\* leading zero, and prefixes ParseUint refuses.
Prefixes == {<<"f", "f">>, <<"F", "F">>, <<"0", "a">>, <<"7">>, <<"0", "0", "7">>,
             <<"1", "0", "0">>, <<"g">>, <<>>}
DefaultPrefix == <<"f", "f">>

\* Run has not started.
NotStarted ==
    /\ devs = [d \in Devices |-> DevInit]
    /\ updatesPerformed = 0
    /\ updatesLeftToFail = updateFailCount
    /\ lock = NoHolder
    /\ lrejected = [dev |-> 0, resent |-> FALSE]
    /\ pc = "auth"
    /\ caller = "firstUpd"
    /\ JWTToken = NoToken
    /\ ArtifactName = ConfigArtifactName
    /\ WebsocketConnection = NilConn
    /\ conns = <<>>
    /\ loops = <<>>
    /\ dep = NoDep
    /\ depReports = <<>>
    /\ depDelays = 0
    /\ lastReq = NoReq
    /\ rejected = FALSE
    /\ replies = <<>>
    /\ authFails = 0
    /\ rejects = 0
    /\ deploys = 0
    /\ frames = 0
    /\ pings = 0

\* The construction of the fleet: no Client made yet, any prefix configured.
IdentityInit ==
    /\ program = "identity"
    /\ MACAddressPrefix \in Prefixes
    /\ clients = {}
    /\ Websocket = FALSE
    /\ NotStarted

IdentityNext == \E index \in Indices : NewClient(index)

IdentitySpec == IdentityInit /\ [][IdentityNext]_vars

Init ==
    /\ program \in {"client", "main"}
    /\ MACAddressPrefix = DefaultPrefix
    /\ clients = IF program = "client"
                 THEN Constructed({}, MACAddressPrefix, ZeroIndex) ELSE {}
    /\ Websocket \in (IF program = "client" THEN BOOLEAN ELSE {FALSE})
    /\ NotStarted

Next ==
    \/ \E resp \in AuthOutcomes : Authenticate(resp)
    \/ AuthSleep
    \/ \E resp \in CallOutcomes : FirstInventory(resp)
    \/ \E resp \in CallOutcomes : InventoryTick(resp)
    \/ \E resp \in UpdateOutcomes \cup Artifacts : FirstUpdateCheck(resp)
    \/ \E resp \in UpdateOutcomes \cup Artifacts : UpdateTick(resp)
    \/ \E resp \in CallOutcomes : DeploymentReport(resp)
    \/ DeploymentSleep
    \/ \E resp \in CallOutcomes : PostInventory(resp)
    \/ WebsocketMsg
    \/ \E l \in Loops, ok \in BOOLEAN : OpenWebsocket(l, ok)
    \/ \E l \in Loops : ReconnectSleep(l)
    \/ \E l \in Loops : ReadCall(l)
    \/ \E l \in Loops, kind \in FrameKinds : ReadFrame(l, kind)
    \/ \E l \in Loops, cause \in {"closed", "transport", "decode"} : ReadError(l, cause)
    \/ \E l \in Loops : ChannelSend(l)
    \/ \E c \in 1..Len(conns) : PingTick(c)
    \/ \E c \in 1..Len(conns), acked \in BOOLEAN : PingResult(c, acked)
    \/ MainNext

Spec == Init /\ [][Next]_vars

\* ------------------------------------------------------------- fairness
\* The goroutine of Client.Run keeps running: every call it makes returns and
\* every sleep ends.
RunStep ==
    \/ \E resp \in AuthOutcomes : Authenticate(resp)
    \/ AuthSleep
    \/ \E resp \in CallOutcomes : FirstInventory(resp)
    \/ \E resp \in CallOutcomes : InventoryTick(resp)
    \/ \E resp \in UpdateOutcomes \cup Artifacts : FirstUpdateCheck(resp)
    \/ \E resp \in UpdateOutcomes \cup Artifacts : UpdateTick(resp)
    \/ \E resp \in CallOutcomes : DeploymentReport(resp)
    \/ DeploymentSleep
    \/ \E resp \in CallOutcomes : PostInventory(resp)
    \/ WebsocketMsg

\* The goroutine of clientScheduler for device d, while it authenticates.
SchedulerAuthStep(d) ==
    \/ \E resp \in {"token", "err", "empty"} : clientAuthenticate(d, resp)
    \/ clientAuthenticateSleep(d)

\* Run's goroutine and each scheduler goroutine are scheduled (weak fairness);
\* the inventory ticker keeps firing and a backend that accepts inventory
\* reports does accept one (strong fairness: the ticker case competes with the
\* other cases of the select).
FairSpec ==
    /\ Spec
    /\ WF_vars(RunStep)
    /\ SF_vars(InventoryTick("200"))
    /\ \A d \in Devices : WF_vars(SchedulerAuthStep(d))

\* The goroutine l of StartWebsocket keeps running: its dial, its read and its
\* sleeps return; a send on a channel nobody receives from does not.
LoopStep(l) ==
    \/ \E ok \in BOOLEAN : OpenWebsocket(l, ok)
    \/ ReconnectSleep(l)
    \/ ReadCall(l)
    \/ \E kind \in FrameKinds : ReadFrame(l, kind)
    \/ \E cause \in {"closed", "transport", "decode"} : ReadError(l, cause)
    \/ ChannelSend(l)

\* The ping-pong handler of connection c inside Ping: the call returns, at the
\* latest when its 30 s timeout is over.
PingerStep(c) == \E acked \in BOOLEAN : PingResult(c, acked)

\* Read loops a run can hold: one for each successful authentication.
MaxLoops == MaxReject + 1

\* The websocket goroutines are scheduled.
FairWsSpec ==
    /\ Spec
    /\ \A l \in 1..MaxLoops : WF_vars(LoopStep(l))
    /\ \A c \in 1..MaxConn : WF_vars(PingerStep(c))

\* ------------------------------------------------------------------ claims
AuthPcs == {"auth", "authSleep", "runSleep"}
AuthSleeping == {"authSleep", "runSleep"}

\* C1: authentication never gives up.  In Client.Run a failed attempt leaves
\* the session sleeping one AuthInterval, the sleep leads to the next attempt
\* and nowhere else, and the session leaves the authenticating states only by
\* an accepted request that replaces the credential; in clientScheduler
\* likewise with the token.  Under fair scheduling the next attempt does come.
C1_ClientStep ==
    /\ (pc = "auth" /\ pc' # pc) =>
          \/ pc' \in AuthSleeping /\ JWTToken' = JWTToken
          \/ pc' = "firstInv" /\ lastReq'.kind = "auth" /\ lastReq'.ok
                /\ JWTToken' # JWTToken /\ JWTToken' # NoToken
    /\ (pc \in AuthSleeping /\ pc' # pc) => pc' = "auth"

C1_MainStep ==
    \A d \in Devices :
        /\ (devs[d].pc = "auth" /\ devs'[d].pc # "auth") =>
              \/ devs'[d].pc = "authSleep" /\ devs'[d].token = NoToken
              \/ devs'[d].pc = "loop" /\ devs'[d].token # NoToken
        /\ (devs[d].pc = "authSleep" /\ devs'[d].pc # "authSleep") => devs'[d].pc = "auth"

C1_AuthNeverGivesUp ==
    /\ [][C1_ClientStep /\ C1_MainStep]_vars
    /\ (program = "client" /\ pc \in AuthSleeping) ~> (pc = "auth")
    /\ (program = "client" /\ pc = "auth" /\ authFails > 0) ~> (lastReq.kind = "auth" /\ pc # "auth")
    /\ \A d \in Devices : (program = "main" /\ devs[d].pc = "authSleep") ~> (devs[d].pc = "auth")

\* C1 witness: the backend failed MaxAuthFail attempts in a row and the session
\* is about to try again.
C1_Witness == program = "client" /\ pc = "auth" /\ authFails = MaxAuthFail

\* C2: a session whose credential got a 401 sends nothing but authentication
\* requests until Authenticate succeeded again, and is not terminated.  In
\* Client.Run: it is in its authenticating states; in clientScheduler: it has
\* sent no authenticated request since.
C2_RejectionLeadsToReauth ==
    /\ (program = "client" /\ rejected) => pc \in AuthPcs
    /\ (program = "main") => ~lrejected.resent

\* C3: with the websocket enabled, every step of Run from active to
\* authenticating leaves the session's connection, if it has one, closed.
C3_ReauthClosesChannel ==
    [][(program = "client" /\ Websocket /\ pc \notin AuthPcs /\ pc' = "auth"
          /\ WebsocketConnection # NilConn)
       => ~conns'[WebsocketConnection].open]_vars

\* C4: an inventory report that got a 401 is followed, under fair scheduling
\* and a backend that accepts again, by an accepted inventory report that
\* carries a newer credential.
C4_InventoryEventuallyAccepted ==
    \A t \in 1..(MaxReject + 1) :
        (program = "client" /\ rejected /\ lastReq.kind = "inventory" /\ lastReq.token = t)
        ~> (lastReq.kind = "inventory" /\ lastReq.ok /\ lastReq.token > t)

\* C5: when the last phase of a deployment with target artifact A was reported
\* and Deployment returns, c.ArtifactName becomes A, and the next request Run
\* sends is an inventory report carrying A.
C5_ReportsNewArtifact ==
    [][(program = "client" /\ dep.artifact # NoArtifact) =>
         /\ (pc = "depSleep" /\ dep.idx = Len(statuses) /\ pc' # pc) =>
                (pc' = "postInv" /\ ArtifactName' = dep.artifact /\ lastReq' = lastReq)
         /\ (pc = "postInv") =>
                /\ lastReq.kind = "status" /\ lastReq.arg = "success"
                /\ ArtifactName = dep.artifact
                /\ lastReq' # lastReq =>
                      (lastReq'.kind = "inventory" /\ lastReq'.arg = dep.artifact)]_vars

\* C5 witness: the inventory report after a completed deployment to "v2" was
\* sent.
C5_Witness ==
    /\ program = "client" /\ deploys = 1 /\ dep = NoDep
    /\ lastReq.kind = "inventory" /\ lastReq.arg = "v2" /\ ArtifactName = "v2"

\* C6: the status reports of one deployment are a prefix of downloading,
\* installing, rebooting, terminal (success, or failure in main.go), and one
\* delay step lies between two consecutive reports.
IsPrefix(s, t) == Len(s) <= Len(t) /\ \A i \in 1..Len(s) : s[i] = t[i]

C6_Cycles == {statuses, <<"downloading", "installing", "rebooting", "failure">>}

C6_Step ==
    /\ IsPrefix(depReports', statuses)
    /\ (Len(depReports') = Len(depReports) + 1 /\ depReports # <<>>) => depDelays = 1
    /\ \A d \in Devices :
          /\ \E c \in C6_Cycles : IsPrefix(devs'[d].reports, c)
          /\ (Len(devs'[d].reports) = Len(devs[d].reports) + 1) => devs[d].delays = 1

C6_PhasesInOrder == [][C6_Step]_vars

\* C6 witness: all four phases of a deployment were reported.
C6_Witness ==
    \/ program = "client" /\ depReports = statuses
    \/ program = "main" /\ \E d \in Devices : Len(devs[d].reports) = 4

\* C7: a status report that gets a 401 ends the deployment (no later phase is
\* reported) and takes Run to Authenticate.
C7_RejectedReportReauthenticates ==
    [][(program = "client" /\ pc = "depReport" /\ ~rejected /\ rejected')
       => (dep' = NoDep /\ pc' = "auth")]_vars

\* C8: only a 401 ends the phase sequence early: after the report of a phase
\* that got any other answer, Client.Deployment goes on to the sleep before the
\* next phase.
C8_TransportFailureContinues ==
    [][(program = "client" /\ pc = "depReport" /\ pc' # pc /\ ~rejected')
       => pc' = "depSleep"]_vars
C9_LoopStep(l) ==
    /\ (loops[l].pc = "reading" /\ loops'[l].pc \notin {"reading", "send"}) =>
          /\ loops'[l].pc = "errSleep"
          /\ Len(conns') = Len(conns)
          /\ ~conns'[WebsocketConnection].open
    /\ (loops[l].pc = "errSleep" /\ loops'[l].pc # "errSleep") =>
          /\ loops'[l].pc = "open"
          /\ conns' = conns
    /\ (loops[l].pc = "open" /\ loops'[l].pc = "read") =>
          /\ Len(conns') = Len(conns) + 1
          /\ conns'[Len(conns')].token = JWTToken
          /\ conns'[Len(conns')].open
          /\ WebsocketConnection' = Len(conns')
    /\ (loops[l].pc # "open" /\ loops'[l] # loops[l]) => Len(conns') = Len(conns)

C10_SingleReadLoop ==
    /\ Len(loops) <= 1
    /\ Cardinality({c \in 1..Len(conns) : conns[c].open}) <= 1

\* C11: every frame Run takes from its channel is answered by exactly one
\* outbound frame: the shell error for a spawn-shell request, the control
\* error for anything else.
C11_EveryFrameAnswered ==
    [][program = "client" =>
         \A l \in Loops :
            Len(loops'[l].buf) < Len(loops[l].buf)
               => replies' = Append(replies, Reply(Head(loops[l].buf)))]_vars

\* C12: a ping that is not acknowledged leaves the connection closed and the
\* ping-pong handler over for good; a ReadMessage on that connection, pending
\* or called afterwards, returns no frame, and under fair scheduling it
\* returns its error to the read loop, which goes on to its error path.
C12_PingFailed(c) == c \in 1..Len(conns) /\ conns[c].pinger = "failed"

C12_Step ==
    \A c \in 1..Len(conns) :
        /\ (conns[c].pinger = "ping" /\ conns'[c].pinger \notin {"ping", "select"})
              => (conns'[c].pinger = "failed" /\ ~conns'[c].open)
        /\ C12_PingFailed(c) => (conns'[c].pinger = "failed" /\ ~conns'[c].open)
        /\ \A l \in Loops :
              (C12_PingFailed(c) /\ loops[l].pc = "reading" /\ loops[l].rconn = c
                 /\ loops'[l].pc # "reading")
              => loops'[l].pc = "errSleep"

C12_FailedPingReachesReadLoop ==
    /\ [][program = "client" => C12_Step]_vars
    /\ \A l \in 1..MaxLoops :
          (program = "client" /\ l \in Loops /\ loops[l].pc = "reading"
             /\ C12_PingFailed(loops[l].rconn))
          ~> (l \in Loops /\ loops[l].pc = "errSleep")

\* C12 witness: a ping failed on the connection a read loop is blocked on.
C12_Witness ==
    \E l \in Loops : loops[l].pc = "reading" /\ C12_PingFailed(loops[l].rconn)

\* C13: once Close was invoked on a connection its tasks are over.  The
\* ping-pong handler is not left waiting in its select, and a handler that is
\* inside a ping ends when the ping returns; the read loop that handled the
\* read error of the closed connection (471-473) does nothing further.
C13_Step ==
    /\ \A c \in 1..Len(conns) :
          ~conns[c].open =>
             /\ conns[c].pinger # "select"
             /\ conns'[c].pinger \in {conns[c].pinger, "failed"}
    /\ \A l \in Loops : loops[l].pc = "errSleep" => loops'[l].pc = "errSleep"

C13_CloseEndsTasks == [][program = "client" => C13_Step]_vars

\* C14: one protocol action at a time within a device.  What Client.Run is
\* doing is fixed by where it is; every step sends at most the request of
\* that one action or handles one frame, never both, and while an
\* authentication or a deployment is in progress no ticker and no frame is
\* taken up.  In clientScheduler a device inside performFakeUpdate starts no
\* update check, and a step moves one device only.
C14_KindAt(at) ==
    CASE at = "auth" -> {"auth"}
      [] at \in {"firstInv", "postInv"} -> {"inventory"}
      [] at = "firstUpd" -> {"update"}
      [] at = "depReport" -> {"status"}
      [] at = "loop" -> {"inventory", "update"}
      [] OTHER -> {}

C14_FrameHandled ==
    \/ replies' # replies
    \/ \E l \in Loops : Len(loops'[l].buf) < Len(loops[l].buf)

C14_ClientStep ==
    /\ lastReq' # lastReq => (lastReq'.kind \in C14_KindAt(pc) /\ ~C14_FrameHandled)
    /\ C14_FrameHandled => (pc = "loop" /\ pc' = "loop"
                            /\ Len(replies') <= Len(replies) + 1)
    /\ Len(depReports') > Len(depReports) => pc = "depReport"

C14_FakeUpdatePcs == {"fake", "locked", "sleep", "download", "upload", "report", "done"}

C14_MainStep ==
    /\ \A d \in Devices :
          (devs[d].pc \in C14_FakeUpdatePcs /\ devs'[d].pc # devs[d].pc)
             => devs'[d].pc \in C14_FakeUpdatePcs \cup {"loop"}
    /\ Cardinality({d \in Devices : devs'[d] # devs[d]}) <= 1

C14_OneActionAtATime ==
    [][IF program = "client" THEN C14_ClientStep ELSE C14_MainStep]_vars

\* C14 witness: a frame waits in the channel while a deployment is in progress.
C14_Witness ==
    /\ program = "client" /\ pc = "depSleep"
    /\ loops # <<>> /\ loops[Len(loops)].buf # <<>>

\* C15: the accesses of Run and of the read loops to c.JWTToken and to
\* c.WebsocketConnection exclude each other.  Authenticate writes the token
\* when its request returns (171) and OpenWebsocket reads it when it dials
\* (482); OpenWebsocket writes the handle (488) and ReadMessage is called
\* through it (470).  No state has a writer and another task's access to the
\* same field both due as the next step.
C15_TokenRace == pc = "auth" /\ \E l \in Loops : loops[l].pc = "open"

C15_HandleRace ==
    \E l, k \in Loops : l # k /\ loops[l].pc = "open" /\ loops[k].pc \in {"open", "read"}

C15_SharedFieldsExclusive ==
    program = "client" => (~C15_TokenRace /\ ~C15_HandleRace)

\* C16: one deployment in flight.  From the update check that returned a
\* deployment until Deployment has returned, Client.Run sends no update check
\* and starts no other deployment; in clientScheduler a device inside
\* performFakeUpdate starts no update check and keeps its reporting cycle.
C16_ClientStep ==
    dep # NoDep =>
       /\ lastReq' # lastReq => lastReq'.kind \in {"status", "inventory"}
       /\ deploys' = deploys
       /\ dep' = NoDep \/ dep'.artifact = dep.artifact

C16_MainStep ==
    \A d \in Devices :
       devs[d].cycle # NoCycle =>
          /\ devs'[d].pc # "check"
          /\ devs'[d].cycle \in {devs[d].cycle, NoCycle}
          /\ devs'[d] # devs[d] => updatesPerformed' = updatesPerformed

C16_OneDeploymentInFlight ==
    [][IF program = "client" THEN C16_ClientStep ELSE C16_MainStep]_vars

\* C16 witness: a deployment is over and the session has asked for updates
\* again; or a device of the fleet is in its second deployment.
C16_Witness ==
    \/ program = "client" /\ deploys = 1 /\ dep = NoDep /\ lastReq.kind = "update"
    \/ program = "main" /\ updatesPerformed > menderClientCount

\* C17: the fail policy per pass over the fleet.  Counting deployments with the
\* shared counter, the k-th deployment of a pass of menderClientCount
\* deployments gets "failure" as its terminal phase when k <= updateFailCount
\* and "success" otherwise, and the counter of failures left goes up only at
\* the start of a pass.
C17_Step ==
    /\ \A d \in Devices :
          (devs[d].pc = "locked" /\ devs'[d].pc = "sleep") =>
             devs'[d].cycle[4] =
                IF updatesPerformed % menderClientCount < updateFailCount
                THEN "failure" ELSE "success"
    /\ updatesLeftToFail' > updatesLeftToFail =>
          (updatesPerformed > 0 /\ updatesPerformed % menderClientCount = 0)

C17_FailuresPerPass == [][program = "main" => C17_Step]_vars

\* C18: fleet of three, one failure.  Among the first deployments of the
\* devices at most updateFailCount have "failure" as terminal phase, and once
\* every device had its first deployment exactly that many have.
C18_FirstFailed == {d \in Devices : devs[d].first = "failure"}

C18_OneFirstDeploymentFails ==
    program = "main" =>
       /\ Cardinality(C18_FirstFailed) <= updateFailCount
       /\ (\A d \in Devices : devs[d].first # "none")
             => Cardinality(C18_FirstFailed) = updateFailCount

\* C19: the fail policy counters are only touched under the lock.  The device
\* that reads updatesPerformed (273), writes updatesLeftToFail (274) or runs
\* the section 304-310 holds the lock while it does.
C19_Step ==
    \A d \in Devices :
       /\ (devs[d].pc = "loop" /\ devs'[d].pc \in {"reset", "check"}) => lock = d
       /\ (devs[d].pc = "reset" /\ devs'[d].pc = "check") => lock = d
       /\ (devs[d].pc = "locked" /\ devs'[d].pc = "sleep") => lock = d

C19_CountersUnderLock == [][program = "main" => C19_Step]_vars

\* C20: errors stay inside the device.  Whatever a call of one device returns,
\* the step changes no other device's state, the shared counters move only in
\* the two places of the fail policy, and the process goes on: Client.Run does
\* not end in a panic, which would take every session of the process with it.
C20_MainStep ==
    /\ \A i, j \in Devices : (i # j /\ devs'[i] # devs[i]) => devs'[j] = devs[j]
    /\ (updatesPerformed' # updatesPerformed \/ updatesLeftToFail' # updatesLeftToFail)
          => \E d \in Devices : devs[d].pc \in {"locked", "reset"} /\ devs'[d] # devs[d]

C20_ErrorsStayLocal ==
    [][IF program = "client" THEN pc' # "panicked" ELSE C20_MainStep]_vars


\* C21: the backend answers 401 to the first two authentication requests and
\* 200 to the third.  Every request sent while authenticating is an
\* authentication request and counts as the next attempt; an attempt answered
\* 401 keeps the credential and leaves Run in one sleep of AuthInterval, which
\* ends in the next attempt with no request sent in between; the accepted
\* attempt makes the session active with a new credential, taken from that
\* response.  So a session that is active after two 401 answers and nothing
\* else has sent exactly three authentication requests.
C21_Step ==
    /\ (pc \in AuthPcs /\ lastReq' # lastReq) =>
          /\ pc = "auth" /\ lastReq'.kind = "auth"
          /\ lastReq'.attempt = AuthAttempts + 1
          /\ lastReq'.denied \in {AuthDenials, AuthDenials + 1}
    /\ (pc = "auth" /\ lastReq'.kind = "auth" /\ lastReq'.denied > AuthDenials) =>
          /\ pc' = "authSleep" /\ ~lastReq'.ok
          /\ JWTToken' = JWTToken
    /\ (pc = "authSleep" /\ pc' # pc) => (pc' = "auth" /\ lastReq' = lastReq)
    /\ (pc = "auth" /\ pc' = "firstInv") =>
          /\ lastReq'.ok /\ lastReq'.attempt = AuthAttempts + 1
          /\ lastReq'.denied = AuthDenials
          /\ JWTToken' = JWTToken + 1
    /\ (pc \in AuthPcs /\ pc' \notin AuthPcs) => (pc = "auth" /\ pc' = "firstInv")

C21_ThirdAttemptAccepted ==
    /\ [][program = "client" => C21_Step]_vars
    /\ [](program = "client" /\ pc = "firstInv" /\ lastReq.denied = 2
            /\ lastReq.attempt = lastReq.denied + 1
          => lastReq.kind = "auth" /\ lastReq.ok /\ lastReq.attempt = 3
             /\ JWTToken # NoToken)

\* C21 witness: the session is active on the third attempt, after two 401
\* answers.
C21_Witness ==
    /\ program = "client" /\ pc = "firstInv"
    /\ lastReq.kind = "auth" /\ lastReq.ok
    /\ lastReq.attempt = 3 /\ lastReq.denied = 2


\* C22: an inventory report or an update check that Run sends from its
\* interval loop and that fails with anything but a 401 (transport error,
\* non-success status, undecodable payload) changes nothing of the session: the
\* credential, the remembered artifact name, the websocket handle, the
\* connections and the read loops are as before, no deployment has started, the
\* session is still authenticated and Run is back in the select of its loop,
\* where the tickers are taken up.
C22_FailedCall ==
    /\ pc = "loop" /\ dep = NoDep
    /\ lastReq' # lastReq /\ lastReq'.kind \in {"inventory", "update"}
    /\ ~lastReq'.ok /\ ~rejected'

C22_Step ==
    C22_FailedCall =>
        /\ pc' = "loop" /\ InSelect'
        /\ JWTToken' = JWTToken /\ ArtifactName' = ArtifactName
        /\ WebsocketConnection' = WebsocketConnection
        /\ conns' = conns /\ loops' = loops
        /\ dep' = NoDep /\ rejected' = rejected
        /\ lastReq'.token = JWTToken

C22_FailureChangesNothing == [][program = "client" => C22_Step]_vars

\* C22 witness: with the websocket open, an inventory report sent on a tick
\* (no deployment was ever started, so it is not the one after a deployment)
\* has failed without a 401 and Run is in its loop.
C22_Witness ==
    /\ program = "client" /\ pc = "loop" /\ deploys = 0 /\ ~rejected
    /\ lastReq.kind = "inventory" /\ ~lastReq.ok
    /\ Websocket /\ WebsocketConnection # NilConn /\ conns[WebsocketConnection].open


\* C23: a session has no terminal state and never gets stuck.  In every
\* reachable state the goroutine of Client.Run can take a step (a call
\* returns, a sleep ends, a case of the select is taken); in every reachable
\* state of the fleet each clientScheduler can take a step, or waits for the
\* mutex while its holder can.
C23_SchedulerStep(d) ==
    \/ SchedulerAuthStep(d)
    \/ \E resp \in {"ok", "err", "401"} : sendInventoryUpdate(d, resp)
    \/ checkForNewUpdate(d) \/ ResetFailCount(d) \/ LockCounters(d)
    \/ \E resp \in {"update", "none", "err", "401"} : GetScheduledUpdate(d, resp)
    \/ performFakeUpdate(d) \/ FakeUpdateSleep(d)
    \/ \E ok \in BOOLEAN : downloadToDevNull(d, ok)
    \/ \E ok \in BOOLEAN : LogUpload(d, ok)
    \/ \E resp \in {"ok", "err", "401"} : StatusReport(d, resp)
    \/ FakeUpdateReturn(d)

C23_NeverStuck ==
    /\ program = "client" => ENABLED RunStep
    /\ program = "main" =>
          \A d \in Devices :
              \/ ENABLED C23_SchedulerStep(d)
              \/ devs[d].pc = "fake" /\ lock \in Devices /\ ENABLED performFakeUpdate(lock)


\* C24: every update check carries the artifact name the session remembers at
\* that moment, the one its inventory reports carry as rootfs-image.version:
\* the configured name before any deployment, the target of the last completed
\* deployment after it.  (The remembered name changes only while a deployment
\* runs, never between an update check and the next request.)
C24_UpdateCheckCarriesCurrentName ==
    (program = "client" /\ lastReq.kind = "update") => lastReq.arg = ArtifactName


C25_Below2p40(ix) == \A k \in 1..3 : ix[k] = 0

C26_MainStep ==
    \A d \in Devices :
        (devs[d].cycle # NoCycle /\ devs'[d].cycle = NoCycle) =>
            /\ Len(devs[d].reports) = Len(devs[d].cycle)
            /\ devs[d].reports[Len(devs[d].reports)] \in {"success", "failure"}

C26_ClientStep ==
    (dep # NoDep /\ dep' = NoDep /\ ~rejected') =>
        \/ Len(depReports) = Len(statuses)
        \/ Len(depReports') = Len(statuses)

C26_TerminalReportSent ==
    [][IF program = "main" THEN C26_MainStep ELSE C26_ClientStep]_vars


\* C27: Run never closes or writes to a connection that does not exist.  When
\* a call made on a ticker path (the tick's request, or a report of the
\* deployment it started) is answered 401 with the websocket enabled, Run calls
\* CloseWebsocket; when Run takes a frame from its channel it calls
\* WriteMessage.  In both cases the handle is not nil, and after the close the
\* connection behind it is closed.
C27_ClosesOnTickerPath ==
    /\ Websocket /\ ~rejected /\ rejected'
    /\ pc = "loop" \/ (pc \in {"depReport", "postInv"} /\ caller = "tickUpd")

C27_TakesFrame ==
    \E l \in Loops : Len(loops'[l].buf) < Len(loops[l].buf)

C27_Step ==
    /\ C27_ClosesOnTickerPath =>
          /\ WebsocketConnection # NilConn
          /\ ~conns'[WebsocketConnection].open
    /\ C27_TakesFrame => WebsocketConnection # NilConn

C27_HandleExistsWhenUsed == [][program = "client" => C27_Step]_vars


\* C28: every frame a read loop has read reaches Run's dispatch, and no read
\* loop stays blocked handing one over.  Run receives from one channel only,
\* the one it made after its last authentication, and never from an earlier
\* one again; so a frame that is to be received is held (in the hand of the
\* read loop, or in the channel's buffer) by the read loop of that channel.
C28_FramesOnLiveChannel ==
    program = "client" =>
        \A l \in Loops :
            (loops[l].msg # "" \/ loops[l].buf # <<>>) => l = Len(loops)


\* C29: a deployment that does not run to completion changes nothing.  The
\* step that ends a deployment inside a phase report (a 401 or an error)
\* keeps the remembered artifact name and takes Run back to its loop or to
\* authentication, not to the inventory report of UpdateCheck; that report is
\* reached, and the artifact name is written, only by the step that follows
\* the sleep after the fourth report, all four phases having been reported.
C29_Aborts == pc = "depReport" /\ dep # NoDep /\ dep' = NoDep

C29_Step ==
    /\ C29_Aborts =>
          /\ ArtifactName' = ArtifactName
          /\ pc' \in {"auth", "loop", "panicked"}
          /\ lastReq'.kind = "status" /\ ~lastReq'.ok
    /\ (pc # "postInv" /\ pc' = "postInv") =>
          /\ pc = "depSleep" /\ depReports = statuses /\ depReports' = depReports
    /\ ArtifactName' # ArtifactName =>
          /\ pc = "depSleep" /\ pc' = "postInv"
          /\ depReports = statuses
          /\ ArtifactName' = dep.artifact
    /\ (lastReq' # lastReq /\ lastReq'.kind = "inventory" /\ pc = "postInv") =>
          depReports = statuses

C29_AbortChangesNothing == [][program = "client" => C29_Step]_vars

\* C29 witness: the one deployment of the run was aborted by an error on the
\* report of its second phase; the session still remembers the configured
\* artifact name and is back in its loop.
C29_Witness ==
    /\ program = "client" /\ pc = "loop" /\ deploys = 1 /\ dep = NoDep
    /\ lastReq.kind = "status" /\ lastReq.arg = "installing" /\ ~lastReq.ok
    /\ ~rejected /\ ArtifactName = ConfigArtifactName


\* C30: a read loop that got a read error closes the connection it was
\* reading from and no other: every connection that is open before the step
\* of the read loop's error path and closed after it is the one its
\* ReadMessage was called on.
C30_Step ==
    \A l \in Loops :
        (loops[l].pc = "reading" /\ loops'[l].pc = "errSleep") =>
            \A c \in 1..Len(conns) :
                (conns[c].open /\ ~conns'[c].open) => c = loops[l].rconn

C30_ClosesOwnConnection == [][program = "client" => C30_Step]_vars

=============================================================================
